---- MODULE Spec2Model ----
(***************************************************************************)
(* Model of webhook-echo (src/main.go): the two HTTP handlers              *)
(* recordWebhookHandler and queryWebhookHandler running as concurrent      *)
(* requests over one database/sql pool opened on the SQLite DSN            *)
(* ":memory:".  Every pooled connection of that DSN is a private           *)
(* in-memory database; only the connection main() used for CREATE TABLE    *)
(* holds the table webhook_params.                                         *)
(***************************************************************************)
EXTENDS Integers, Sequences, FiniteSets, TLC

(* ------------------------------ bounds -------------------------------- *)
\* handler goroutines that can be in flight together
NumProcs == 2
\* requests served in one behaviour
MaxRequests == 3
\* decimal digits of a number's fraction the model keeps
FracDigits == 2
\* capacities the ring-buffer statement of the spec is instantiated with
MaxCapacity == 2
\* requests in flight together when the pool runs out of idle slots
PoolProcs == 3
\* requests served in one such behaviour
PoolRequests == 4

(* database/sql's default number of idle connections kept by sql.Open *)
MaxIdleConns == 2

(* --------------------------- JSON documents --------------------------- *)
\* A JSON text is modelled by its syntax tree.  A number keeps its literal:
\* the integer part and the digits written after the decimal point.
JStr(s) == [t |-> "string", s |-> s]
JNum(w, f) == [t |-> "number", whole |-> w, frac |-> f]
JBool(b) == [t |-> "bool", b |-> b]
JNull == [t |-> "null"]
JObj(o) == [t |-> "object", o |-> o]
JArr(a) == [t |-> "array", a |-> a]
NoFields == [k \in {} |-> JNull]

(* ------------------------------ Go values ----------------------------- *)
\* What encoding/json decodes into `any`: float64 for every number.
GoString(s) == [t |-> "string", s |-> s]
GoFloat(v) == [t |-> "float64", v |-> v]
GoBool(b) == [t |-> "bool", b |-> b]
GoNil == [t |-> "nil"]
GoMap(m) == [t |-> "map", m |-> m]
GoSlice(a) == [t |-> "slice", a |-> a]
\* map[string]any: a nil map and an empty map are different values
NilMap == [isNil |-> TRUE, m |-> NoFields]
MakeMap(m) == [isNil |-> FALSE, m |-> m]

RECURSIVE Pow10(_)
Pow10(n) == IF n = 0 THEN 1 ELSE 10 * Pow10(n - 1)

Scale == Pow10(FracDigits)

RECURSIVE DigitsToInt(_, _)
\* the first n digits of a fraction, right-padded with zeros, as an integer
DigitsToInt(ds, n) ==
    IF n = 0 THEN 0
    ELSE (IF ds = <<>> THEN 0 ELSE Head(ds)) * Pow10(n - 1)
         + DigitsToInt(IF ds = <<>> THEN <<>> ELSE Tail(ds), n - 1)

\* strconv.ParseFloat of a number literal: the float64 it denotes, held as
\* value * Scale
ParseFloat(whole, frac) == whole * Scale + DigitsToInt(frac, FracDigits)

RECURSIVE IntToDigits(_, _)
IntToDigits(v, n) ==
    IF n = 0 THEN <<>>
    ELSE <<v \div Pow10(n - 1)>> \o IntToDigits(v % Pow10(n - 1), n - 1)

RECURSIVE StripZeros(_)
StripZeros(ds) ==
    IF ds = <<>> THEN <<>>
    ELSE IF ds[Len(ds)] = 0 THEN StripZeros(SubSeq(ds, 1, Len(ds) - 1))
    ELSE ds

\* FormatFloat with a fixed fraction: 100 is written 100.0
FormatFloatFixed(v) ==
    LET ds == StripZeros(IntToDigits(v % Scale, FracDigits))
    IN  JNum(v \div Scale, IF ds = <<>> THEN <<0>> ELSE ds)

\* strconv.AppendFloat(v, 'f', -1, 64) as encoding/json uses it: the shortest
\* literal that reads back as v
FormatFloat(v) == JNum(v \div Scale, StripZeros(IntToDigits(v % Scale, FracDigits)))

RECURSIVE DecodeValue(_)
\* json.Unmarshal of a document into `any`
DecodeValue(d) ==
    CASE d.t = "string" -> GoString(d.s)
      [] d.t = "number" -> GoFloat(ParseFloat(d.whole, d.frac))
      [] d.t = "bool" -> GoBool(d.b)
      [] d.t = "null" -> GoNil
      [] d.t = "object" -> GoMap([k \in DOMAIN d.o |-> DecodeValue(d.o[k])])
      [] d.t = "array" -> GoSlice([i \in DOMAIN d.a |-> DecodeValue(d.a[i])])

RECURSIVE MarshalValue(_)
\* json.Marshal of an `any`
MarshalValue(v) ==
    CASE v.t = "string" -> JStr(v.s)
      [] v.t = "float64" -> FormatFloat(v.v)
      [] v.t = "bool" -> JBool(v.b)
      [] v.t = "nil" -> JNull
      [] v.t = "map" -> JObj([k \in DOMAIN v.m |-> MarshalValue(v.m[k])])
      [] v.t = "slice" -> JArr([i \in DOMAIN v.a |-> MarshalValue(v.a[i])])

\* json.Marshal(res.Payload): a nil map is the text null
MarshalPayload(p) ==
    IF p.isNil THEN JNull ELSE JObj([k \in DOMAIN p.m |-> MarshalValue(p.m[k])])

\* UnmarshalPayload that takes the text null for an error
UnmarshalPayloadNoNull(d) ==
    CASE d.t = "object" ->
            [err |-> FALSE,
             payload |-> MakeMap([k \in DOMAIN d.o |-> DecodeValue(d.o[k])])]
      [] OTHER -> [err |-> TRUE, payload |-> NilMap]

\* json.Unmarshal(text, &payload) with payload a nil map[string]any
UnmarshalPayload(d) ==
    CASE d.t = "null" -> [err |-> FALSE, payload |-> NilMap]
      [] d.t = "object" ->
            [err |-> FALSE,
             payload |-> MakeMap([k \in DOMAIN d.o |-> DecodeValue(d.o[k])])]
      [] OTHER -> [err |-> TRUE, payload |-> NilMap]

(* --------------------------- WebhookParams ---------------------------- *)
WebhookParams(e, p, v) == [EventType |-> e, Payload |-> p, Version |-> v]

\* A request body: its bytes, whether they are JSON at all, and their tree.
Body(raw, ok, doc) == [raw |-> raw, syntaxOK |-> ok, doc |-> doc]

\* one string field of the struct: absent or null leaves the zero value, any
\* other non-string is an UnmarshalTypeError
StringField(o, name) ==
    IF name \notin DOMAIN o \/ o[name].t = "null" THEN [err |-> FALSE, s |-> ""]
    ELSE IF o[name].t = "string" THEN [err |-> FALSE, s |-> o[name].s]
    ELSE [err |-> TRUE, s |-> ""]

MapField(o, name) ==
    IF name \notin DOMAIN o THEN [err |-> FALSE, payload |-> NilMap]
    ELSE UnmarshalPayload(o[name])

\* Unmarshal with the syntax error dropped: a body that is no JSON decodes to
\* the zero value
UnmarshalIgnoringSyntax(body) ==
    LET zero == WebhookParams("", NilMap, "")
    IN  IF ~body.syntaxOK \/ body.doc.t = "null" THEN [err |-> FALSE, res |-> zero]
        ELSE IF body.doc.t # "object" THEN [err |-> TRUE, res |-> zero]
        ELSE LET e == StringField(body.doc.o, "event")
                 d == MapField(body.doc.o, "data")
                 v == StringField(body.doc.o, "version")
             IN  [err |-> e.err \/ d.err \/ v.err,
                  res |-> WebhookParams(e.s, d.payload, v.s)]

\* json.Unmarshal(body, &res) with res := WebhookParams{}
Unmarshal(body) ==
    LET zero == WebhookParams("", NilMap, "")
    IN  IF ~body.syntaxOK THEN [err |-> TRUE, res |-> zero]
        ELSE IF body.doc.t = "null" THEN [err |-> FALSE, res |-> zero]
        ELSE IF body.doc.t # "object" THEN [err |-> TRUE, res |-> zero]
        ELSE LET e == StringField(body.doc.o, "event")
                 d == MapField(body.doc.o, "data")
                 v == StringField(body.doc.o, "version")
             IN  [err |-> e.err \/ d.err \/ v.err,
                  res |-> WebhookParams(e.s, d.payload, v.s)]

(* ------------------------------- SQLite ------------------------------- *)
SqlNull == [ty |-> "NULL"]
SqlText(s) == [ty |-> "TEXT", s |-> s]
SqlInteger(i) == [ty |-> "INTEGER", i |-> i]
SqlReal(w, f) == [ty |-> "REAL", whole |-> w, frac |-> f]

RECURSIVE SplitLabels(_, _, _)
SplitLabels(cs, cur, acc) ==
    IF cs = <<>> THEN Append(acc, cur)
    ELSE IF Head(cs) = "." THEN SplitLabels(Tail(cs), "", Append(acc, cur))
    ELSE SplitLabels(Tail(cs), cur \o Head(cs), acc)

\* The JSON path fmt.Sprintf builds, '$.<key>', as SQLite reads it: the key's
\* characters are cut into object labels at every '.'
PathLabels(key) == SplitLabels(key, "", <<>>)

RECURSIVE Lookup(_, _)
Lookup(d, labels) ==
    IF labels = <<>> THEN [found |-> TRUE, node |-> d]
    ELSE IF d.t = "object" /\ Head(labels) \in DOMAIN d.o
         THEN Lookup(d.o[Head(labels)], Tail(labels))
    ELSE [found |-> FALSE, node |-> JNull]

RECURSIVE DigitString(_)
DigitString(ds) == IF ds = <<>> THEN "" ELSE ToString(Head(ds)) \o DigitString(Tail(ds))

RECURSIVE RenderJson(_)
RECURSIVE RenderFields(_, _)
RECURSIVE RenderItems(_)
\* the minified text of a subtree (members in CHOOSE order)
RenderJson(d) ==
    CASE d.t = "string" -> "\"" \o d.s \o "\""
      [] d.t = "number" ->
            IF d.frac = <<>> THEN ToString(d.whole)
            ELSE ToString(d.whole) \o "." \o DigitString(d.frac)
      [] d.t = "bool" -> IF d.b THEN "true" ELSE "false"
      [] d.t = "null" -> "null"
      [] d.t = "object" -> "{" \o RenderFields(d.o, DOMAIN d.o) \o "}"
      [] d.t = "array" -> "[" \o RenderItems(d.a) \o "]"
RenderFields(o, ks) ==
    IF ks = {} THEN ""
    ELSE LET k == CHOOSE x \in ks : TRUE
         IN  "\"" \o k \o "\":" \o RenderJson(o[k])
             \o (IF ks = {k} THEN "" ELSE "," \o RenderFields(o, ks \ {k}))
RenderItems(a) ==
    IF a = <<>> THEN ""
    ELSE RenderJson(Head(a)) \o (IF Len(a) = 1 THEN "" ELSE "," \o RenderItems(Tail(a)))

\* json_extract(payload, '$.<key>'): SQL NULL for a missing path or a JSON
\* null, INTEGER or REAL for a number, INTEGER 1/0 for true/false, TEXT for a
\* string (unquoted) and for an object or array (its JSON text)
JsonExtract(payload, key) ==
    LET r == Lookup(payload, PathLabels(key))
        n == r.node
    IN  IF ~r.found THEN SqlNull
        ELSE CASE n.t = "null" -> SqlNull
               [] n.t = "string" -> SqlText(n.s)
               [] n.t = "number" ->
                     IF n.frac = <<>> THEN SqlInteger(n.whole)
                     ELSE SqlReal(n.whole, n.frac)
               [] n.t = "bool" -> SqlInteger(IF n.b THEN 1 ELSE 0)
               [] OTHER -> SqlText(RenderJson(n))

\* CAST(x AS TEXT)
CastText(x) ==
    CASE x.ty = "NULL" -> SqlNull
      [] x.ty = "TEXT" -> x
      [] x.ty = "INTEGER" -> SqlText(ToString(x.i))
      [] x.ty = "REAL" -> SqlText(ToString(x.whole) \o "." \o DigitString(x.frac))

\* x = ? with a TEXT argument: true only for equal texts, NULL is never equal
SqlEquals(x, arg) == x.ty = "TEXT" /\ x.s = arg

\* one generated clause: AND CAST(json_extract(payload, '$.key') AS TEXT) = ?
FilterClause(row, key, arg) == SqlEquals(CastText(JsonExtract(row.payload, key)), arg)

\* WHERE event_type = ? plus one clause per query parameter that has a value,
\* bound to the parameter's first value
Where(row, eventType, queryParams) ==
    /\ row.event_type = eventType
    /\ \A key \in DOMAIN queryParams :
          Len(queryParams[key]) > 0 => FilterClause(row, key, queryParams[key][1])

RECURSIVE OrderById(_)
\* ORDER BY id
OrderById(rows) ==
    IF rows = {} THEN <<>>
    ELSE LET r == CHOOSE x \in rows : \A y \in rows : x.id <= y.id
         IN  <<r>> \o OrderById(rows \ {r})

RECURSIVE CountQuotes(_)
CountQuotes(cs) ==
    IF cs = <<>> THEN 0
    ELSE (IF Head(cs) = "'" THEN 1 ELSE 0) + CountQuotes(Tail(cs))

\* whether SQLite can prepare the statement text: the key is pasted between
\* single quotes, so a key with an odd number of ' leaves a string literal
\* open and the statement is a syntax error
StatementParses(queryParams) ==
    \A key \in DOMAIN queryParams :
        Len(queryParams[key]) > 0 => CountQuotes(key) % 2 = 0

\* the rows the SELECT of queryWebhookHandler yields, in order
Select(table, eventType, queryParams) ==
    OrderById({row \in table : Where(row, eventType, queryParams)})

\* INTEGER PRIMARY KEY left out of the INSERT: one more than the largest id
NextId(table) ==
    IF table = {} THEN 1
    ELSE (CHOOSE i \in {r.id : r \in table} : \A r \in table : r.id <= i) + 1

\* INSERT INTO webhook_params (event_type, payload, version) VALUES (?, ?, ?)
Insert(table, res) ==
    table \cup {[id |-> NextId(table), event_type |-> res.EventType,
                 payload |-> MarshalPayload(res.Payload), version |-> res.Version]}

\* a database a new connection of DSN ":memory:" starts with: no table
EmptyDB == [hasTable |-> FALSE, rows |-> {}]
\* the database after CREATE TABLE IF NOT EXISTS webhook_params
CreateTable(db) == IF db.hasTable THEN db ELSE [hasTable |-> TRUE, rows |-> {}]

(* ----------------------------- scan loop ------------------------------ *)
NilSlice == [isNil |-> TRUE, items |-> <<>>]
GoAppend(sl, x) == [isNil |-> FALSE, items |-> Append(sl.items, x)]

RECURSIVE ScanRows(_, _)
\* for rows.Next() { Scan; Unmarshal payload; append }: a row whose payload
\* does not decode is skipped
ScanRows(rows, webhooks) ==
    IF rows = <<>> THEN webhooks
    ELSE LET row == Head(rows)
             u == UnmarshalPayload(row.payload)
         IN  IF u.err THEN ScanRows(Tail(rows), webhooks)
             ELSE ScanRows(Tail(rows),
                           GoAppend(webhooks,
                                    WebhookParams(row.event_type, u.payload, row.version)))

\* json.NewEncoder(w).Encode(webhooks): a nil slice is the text null
EncodeWebhooks(webhooks) ==
    IF webhooks.isNil THEN JNull
    ELSE JArr([i \in DOMAIN webhooks.items |->
                  JObj([k \in {"event", "data", "version"} |->
                          CASE k = "event" -> JStr(webhooks.items[i].EventType)
                            [] k = "data" -> MarshalPayload(webhooks.items[i].Payload)
                            [] k = "version" -> JStr(webhooks.items[i].Version)])])

(* -------------------------- http.ResponseWriter ----------------------- *)
NewWriter == [wroteHeader |-> FALSE, status |-> 200, ctype |-> "", body |-> <<>>]

\* w.Header().Set("Content-Type", ct): headers are frozen once written
SetContentType(w, ct) == IF w.wroteHeader THEN w ELSE [w EXCEPT !.ctype = ct]

\* w.Write(chunk): the first write sends the header with status 200
Write(w, chunk) == [w EXCEPT !.wroteHeader = TRUE, !.body = Append(@, chunk)]

\* http.Error(w, msg, code)
HttpError(w, msg, code) ==
    IF w.wroteHeader THEN [w EXCEPT !.body = Append(@, msg \o "\n")]
    ELSE [wroteHeader |-> TRUE, status |-> code,
          ctype |-> "text/plain; charset=utf-8", body |-> Append(w.body, msg \o "\n")]

(* ------------------------------- inputs ------------------------------- *)
\* A request body: its bytes, whether io.ReadAll delivered them, whether they
\* are JSON at all, and their tree.
BodyNum100 ==
    Body("{\"event\":\"order\",\"data\":{\"n\":100.0},\"version\":\"1\"}", TRUE,
         JObj([k \in {"event", "data", "version"} |->
                 CASE k = "event" -> JStr("order")
                   [] k = "data" -> JObj("n" :> JNum(100, <<0>>))
                   [] k = "version" -> JStr("1")]))
BodyNum200 ==
    Body("{\"event\":\"order\",\"data\":{\"n\":200},\"version\":\"1\"}", TRUE,
         JObj([k \in {"event", "data", "version"} |->
                 CASE k = "event" -> JStr("order")
                   [] k = "data" -> JObj("n" :> JNum(200, <<>>))
                   [] k = "version" -> JStr("1")]))
BodyUser ==
    Body("{\"event\":\"user\",\"data\":{\"a\":{\"b\":\"x\"},\"f\":true,\"s\":\"active\"},\"version\":\"1\"}",
         TRUE,
         JObj([k \in {"event", "data", "version"} |->
                 CASE k = "event" -> JStr("user")
                   [] k = "data" -> JObj(("a" :> JObj("b" :> JStr("x")))
                                         @@ ("f" :> JBool(TRUE)) @@ ("s" :> JStr("active")))
                   [] k = "version" -> JStr("1")]))
BodyNoData ==
    Body("{\"event\":\"order\",\"version\":\"2\"}", TRUE,
         JObj([k \in {"event", "version"} |->
                 CASE k = "event" -> JStr("order")
                   [] k = "version" -> JStr("2")]))
BodyNotJson == Body("not json", FALSE, JNull)

NoReq == [kind |-> "none"]
RecordReq(b, readOK) == [kind |-> "record", body |-> b, readOK |-> readOK]
QueryReq(et, qp) == [kind |-> "query", eventType |-> et, queryParams |-> qp]

\* the POST / requests the handlers are driven with; the last one is a body
\* whose read fails
RecordRequests ==
    {RecordReq(b, TRUE) :
        b \in {BodyNum100, BodyNum200, BodyUser, BodyNoData, BodyNotJson}}
    \cup {RecordReq(BodyNotJson, FALSE)}

NoParams == [k \in {} |-> <<>>]
\* the URL query strings: parameter name (its characters) -> values
OrderParams ==
    { NoParams,
      <<"n">> :> <<"100">>,
      <<"n">> :> <<"100.0">>,
      <<"n">> :> <<"100.00", "100">>,
      <<"z">> :> <<"">>,
      <<"k", "'">> :> <<"x">> }
UserParams ==
    { NoParams,
      <<"f">> :> <<"true">>,
      (<<"s">> :> <<"active">>) @@ (<<"f">> :> <<"1">>),
      <<"a", ".", "b">> :> <<"x">>,
      <<"n">> :> <<"100">> }

\* the GET /query/{event_type} requests; the last one has no path value
QueryRequests ==
    {QueryReq("order", qp) : qp \in OrderParams}
    \cup {QueryReq("user", qp) : qp \in UserParams}
    \cup {QueryReq("", NoParams)}

(* -------------------------------- state ------------------------------- *)
VARIABLES
    connDB,     \* open connection -> its private in-memory database
    freeConn,   \* database/sql's idle connections, most recently released last
    committed,  \* every row an INSERT has stored, with its connection
    nreq,       \* requests accepted so far
    inflight,   \* the handler invocations that hold a connection
    last,       \* the handler invocation that returned most recently
    load        \* the traffic: requests served at once, requests in all

vars == <<connDB, freeConn, committed, nreq, inflight, last, load>>

\* the clients of the server: `procs` requests at once, `requests` in all
Load(procs, requests) == [procs |-> procs, requests |-> requests]

\* a handler invocation inside ExecContext / QueryContext: the request, the
\* connection it holds, and `committed` as it was when the call was made
Call(r, c, snap) == [req |-> r, conn |-> c, snap |-> snap]

\* what a returned handler's database call worked on: the connection, the
\* snapshot taken when the call was made, the table the statement found
DBCall(c, snap, seen) == [conn |-> c, snap |-> snap, seen |-> seen]
\* the handler returned before any database call
NoCall == DBCall(0, {}, {})

\* a returned handler invocation: its request, the ResponseWriter it wrote,
\* the rows its SELECT yielded, the rows its INSERT stored, its database call
Returned(r, w, got, stored, call) ==
    [req |-> r, resp |-> w, got |-> got, stored |-> stored, call |-> call]

\* main(): sql.Open, CREATE TABLE on the first connection, which then idles
Init ==
    /\ connDB = (1 :> CreateTable(EmptyDB))
    /\ freeConn = <<1>>
    /\ committed = {}
    /\ nreq = 0
    /\ inflight = {}
    /\ last = Returned(NoReq, NewWriter, <<>>, {}, NoCall)
    /\ load = Load(NumProcs, MaxRequests)

(* --------------------------- connection pool -------------------------- *)
\* DB.conn: the most recently released idle connection, else a new one
PoolConn(free, open) ==
    IF free # <<>> THEN free[Len(free)]
    ELSE CHOOSE c \in 1..(Cardinality(open) + 1) :
            c \notin open /\ \A d \in 1..(c - 1) : d \in open

\* PoolTake that leaves the connection on the idle list while it is in use
PoolTakeNone(free) == free

\* the idle list once a connection is handed out
PoolTake(free) == IF free # <<>> THEN SubSeq(free, 1, Len(free) - 1) ELSE free

\* the databases once connection c is handed out: a new one starts empty
PoolOpen(dbs, c) == IF c \in DOMAIN dbs THEN dbs ELSE dbs @@ (c :> EmptyDB)

\* DB.putConn: keep the connection idle if fewer than MaxIdleConns idle
PutFree(free, c) == IF Len(free) < MaxIdleConns THEN Append(free, c) ELSE free

\* ... else close it, and its in-memory database with it
PutDBs(dbs, free, c) ==
    IF Len(free) < MaxIdleConns THEN dbs ELSE [d \in DOMAIN dbs \ {c} |-> dbs[d]]

\* a handler enters ExecContext / QueryContext and is given a connection
Acquire(r) ==
    LET c == PoolConn(freeConn, DOMAIN connDB)
    IN  /\ Cardinality(inflight) < load.procs
        /\ inflight' = inflight \cup {Call(r, c, committed)}
        /\ connDB' = PoolOpen(connDB, c)
        /\ freeConn' = PoolTake(freeConn)

(* ------------------------ recordWebhookHandler ------------------------ *)
\* lines 22-37: read the body, decode it, marshal the payload; a failure is a
\* 400, else db.ExecContext is called and takes a connection
RecordCall(r) ==
    /\ nreq < load.requests
    /\ nreq' = nreq + 1
    /\ IF ~r.readOK
       THEN /\ last' = Returned(r, HttpError(NewWriter, "Failed to read request body", 400),
                                <<>>, {}, NoCall)
            /\ UNCHANGED <<inflight, connDB, freeConn>>
       ELSE IF Unmarshal(r.body).err
       THEN /\ last' = Returned(r, HttpError(NewWriter, "Invalid JSON", 400),
                                <<>>, {}, NoCall)
            /\ UNCHANGED <<inflight, connDB, freeConn>>
       ELSE /\ Acquire(r)
            /\ UNCHANGED last
    /\ UNCHANGED <<committed, load>>

\* the response once ExecContext has returned (lines 43-51)
RecordResponse(failed, body) ==
    LET w == IF failed
             THEN HttpError(NewWriter, "Failed to insert webhook", 500)
             ELSE NewWriter
    IN  Write(SetContentType(w, "application/json"), body.raw)

\* lines 38-51: the INSERT runs on the held connection, the connection goes
\* back to the pool, the response is written
RecordExec(h) ==
    /\ h \in inflight
    /\ h.req.kind = "record"
    /\ LET c == h.conn
           db == connDB[c]
           res == Unmarshal(h.req.body).res
           table == IF db.hasTable THEN Insert(db.rows, res) ELSE db.rows
           stored == {[conn |-> c, row |-> r] : r \in table \ db.rows}
       IN  /\ connDB' = PutDBs([connDB EXCEPT ![c].rows = table], freeConn, c)
           /\ freeConn' = PutFree(freeConn, c)
           /\ committed' = committed \cup stored
           /\ last' = Returned(h.req, RecordResponse(~db.hasTable, h.req.body),
                               <<>>, stored, DBCall(c, h.snap, db.rows))
    /\ inflight' = inflight \ {h}
    /\ UNCHANGED <<nreq, load>>

(* ------------------------- queryWebhookHandler ------------------------ *)
\* lines 57-86: take the path value, build the statement; no path value is a
\* 400, else db.QueryContext is called and takes a connection
QueryCall(r) ==
    /\ nreq < load.requests
    /\ nreq' = nreq + 1
    /\ IF r.eventType = ""
       THEN /\ last' = Returned(r, HttpError(NewWriter, "Event type is required", 400),
                                <<>>, {}, NoCall)
            /\ UNCHANGED <<inflight, connDB, freeConn>>
       ELSE /\ Acquire(r)
            /\ UNCHANGED last
    /\ UNCHANGED <<committed, load>>

\* the response to a query whose statement ran (lines 94-116)
QueryResponse(rows) ==
    Write(SetContentType(NewWriter, "application/json"),
          EncodeWebhooks(ScanRows(rows, NilSlice)))

\* lines 86-116: the statement runs on the held connection; a failure (no
\* such table, syntax error) is a 500, else the rows are scanned, the
\* connection is released, the slice is encoded
QueryRows(h) ==
    /\ h \in inflight
    /\ h.req.kind = "query"
    /\ LET c == h.conn
           db == connDB[c]
           rows == Select(db.rows, h.req.eventType, h.req.queryParams)
       IN  /\ connDB' = PutDBs(connDB, freeConn, c)
           /\ freeConn' = PutFree(freeConn, c)
           /\ last' = IF ~db.hasTable \/ ~StatementParses(h.req.queryParams)
                      THEN Returned(h.req,
                                    HttpError(NewWriter, "Database query failed", 500),
                                    <<>>, {}, DBCall(c, h.snap, db.rows))
                      ELSE Returned(h.req, QueryResponse(rows), rows, {},
                                    DBCall(c, h.snap, db.rows))
    /\ inflight' = inflight \ {h}
    /\ UNCHANGED <<committed, nreq, load>>

Next ==
    \/ \E r \in RecordRequests : RecordCall(r)
    \/ \E h \in inflight : RecordExec(h)
    \/ \E r \in QueryRequests : QueryCall(r)
    \/ \E h \in inflight : QueryRows(h)

Spec == Init /\ [][Next]_vars

(* ------------------- more requests at once than idle slots ------------ *)
\* the same server under one kind of POST and one kind of GET, with more
\* requests at once than the pool keeps idle connections
PoolRecordRequests == {RecordReq(BodyNum200, TRUE)}
PoolQueryRequests == {QueryReq("order", NoParams)}

InitPool ==
    /\ connDB = (1 :> CreateTable(EmptyDB))
    /\ freeConn = <<1>>
    /\ committed = {}
    /\ nreq = 0
    /\ inflight = {}
    /\ last = Returned(NoReq, NewWriter, <<>>, {}, NoCall)
    /\ load = Load(PoolProcs, PoolRequests)

NextPool ==
    \/ \E r \in PoolRecordRequests : RecordCall(r)
    \/ \E h \in inflight : RecordExec(h)
    \/ \E r \in PoolQueryRequests : QueryCall(r)
    \/ \E h \in inflight : QueryRows(h)

SpecPool == InitPool /\ [][NextPool]_vars

(* ======================= properties of the claims ===================== *)
\* the handler that returned last was a query whose statement ran
QueryRan == last.req.kind = "query" /\ last.call # NoCall /\ last.resp.status = 200
\* the handler that returned last was a record request with a decodable body
RecordDecoded ==
    last.req.kind = "record" /\ last.req.readOK /\ ~Unmarshal(last.req.body).err
\* the rows of the returned result, as a set
GotRows == {last.got[i] : i \in DOMAIN last.got}
\* the rows of the queried event type in the table the statement found
SeenOfType == {r \in last.call.seen : r.event_type = last.req.eventType}

RECURSIVE JoinChars(_)
\* a parameter name as one string
JoinChars(cs) == IF cs = <<>> THEN "" ELSE Head(cs) \o JoinChars(Tail(cs))

\* the record's payload has the member `name`
PayloadHas(row, name) == row.payload.t = "object" /\ name \in DOMAIN row.payload.o

\* C1: the records a Query returns are in strictly decreasing insertion order
\* (newest first): of two returned records the one pushed later comes first.
C1_NewestFirst ==
    QueryRan =>
        \A i, j \in DOMAIN last.got : i < j => last.got[i].id > last.got[j].id

\* C2: for every capacity C, once more than C records of one event type were
\* pushed, a Query with empty filters returns exactly C records and the first
\* pushed record is not among them.
C2_HoldsLastCapacity ==
    \A C \in 1..MaxCapacity :
        (/\ QueryRan
         /\ last.req.queryParams = NoParams
         /\ \A r \in last.call.seen : r.event_type = last.req.eventType
         /\ Cardinality(last.call.seen) > C)
        => /\ Len(last.got) = C
           /\ \A r \in GotRows : r.id # 1

\* the stringified form of a payload value the filter rule of the spec
\* compares: strings as they are, numbers in shortest decimal form, booleans
\* as true/false, anything else in a generic readable form
SpecStringify(d) ==
    CASE d.t = "string" -> d.s
      [] d.t = "number" ->
            IF StripZeros(d.frac) = <<>> THEN ToString(d.whole)
            ELSE ToString(d.whole) \o "." \o DigitString(StripZeros(d.frac))
      [] d.t = "bool" -> IF d.b THEN "true" ELSE "false"
      [] OTHER -> "<" \o d.t \o ">"

\* a record satisfies the filter entry (key, value) in the sense of the spec
SpecFilterMatch(row, key, value) ==
    /\ PayloadHas(row, JoinChars(key))
    /\ SpecStringify(row.payload.o[JoinChars(key)]) = value

\* C3: a Query returns exactly the stored records of the event type that
\* satisfy every filter entry; none is omitted, none of another type or
\* failing a filter is included.
C3_ExactlyTheMatching ==
    QueryRan =>
        GotRows = {r \in last.call.seen :
                      /\ r.event_type = last.req.eventType
                      /\ \A key \in DOMAIN last.req.queryParams :
                            SpecFilterMatch(r, key, last.req.queryParams[key][1])}

\* C4: a Query with an empty result answers status 200 with the JSON array [],
\* never null and never an error.
C4_EmptyIsEmptyArray ==
    (last.req.kind = "query" /\ last.req.eventType # "" /\ last.got = <<>>)
    => /\ last.resp.status = 200
       /\ last.resp.body = <<JArr(<<>>)>>

\* C5: a Record request whose body is not valid JSON answers 400 and makes no
\* database call: it stores nothing, the stored records are as before.
C5_InvalidJsonNotPushed ==
    (last.req.kind = "record" /\ last.req.readOK /\ ~last.req.body.syntaxOK)
    => /\ last.resp.status = 400
       /\ last.call = NoCall
       /\ last.stored = {}

\* an undecodable body was refused while records were stored
C5_Witness ==
    /\ last.req = RecordReq(BodyNotJson, TRUE)
    /\ last.resp.status = 400
    /\ committed # {}

\* C6: every Record request with a decodable body pushes its record and is
\* answered 200, application/json, with exactly the request body.
C6_RecordEchoes ==
    RecordDecoded
    => /\ last.stored # {}
       /\ last.resp.status = 200
       /\ last.resp.ctype = "application/json"
       /\ last.resp.body = <<last.req.body.raw>>

\* the row is one whole record some Record request stores
WholeRecord(row) ==
    \E q \in RecordRequests :
        LET u == Unmarshal(q.body)
        IN  /\ q.readOK /\ ~u.err
            /\ row.event_type = u.res.EventType
            /\ row.payload = MarshalPayload(u.res.Payload)
            /\ row.version = u.res.Version

\* C7: under every interleaving each returned call has written its response,
\* and every record of a Query result is a whole record whose INSERT had
\* committed on the Query's connection when QueryContext was called.
C7_QuerySeesCommitted ==
    /\ last.req.kind # "none" => last.resp.wroteHeader
    /\ QueryRan =>
          \A r \in GotRows :
              /\ [conn |-> last.call.conn, row |-> r] \in last.call.snap
              /\ WholeRecord(r)

\* a Query returned records while another handler was inside its database call
C7_Witness ==
    /\ QueryRan
    /\ last.got # <<>>
    /\ inflight # {}

\* C8: a numeric payload field is compared by its shortest decimal rendering:
\* number 100 is returned for the filter value 100 and not for 100.0 or
\* 100.00, number 200 is not returned for 100.
C8_NumberShortestDecimal ==
    (QueryRan /\ DOMAIN last.req.queryParams = {<<"n">>})
    => \A r \in SeenOfType :
          (PayloadHas(r, "n") /\ r.payload.o["n"].t = "number")
          => (r \in GotRows
              <=> last.req.queryParams[<<"n">>][1] = SpecStringify(r.payload.o["n"]))

\* the filter n=100 returned the record with number 100 and left out the one
\* with number 200
C8_Witness ==
    /\ QueryRan
    /\ last.req.queryParams = (<<"n">> :> <<"100">>)
    /\ \E r \in GotRows : r.payload.o["n"] = JNum(100, <<>>)
    /\ \E r \in SeenOfType \ GotRows :
          PayloadHas(r, "n") /\ r.payload.o["n"] = JNum(200, <<>>)

\* C9: a boolean payload field is compared as the token true or false: a
\* record whose field f is true is returned for f=true and for no other value.
C9_BooleanAsToken ==
    (QueryRan /\ DOMAIN last.req.queryParams = {<<"f">>})
    => \A r \in SeenOfType :
          (PayloadHas(r, "f") /\ r.payload.o["f"].t = "bool")
          => (r \in GotRows
              <=> last.req.queryParams[<<"f">>][1]
                  = (IF r.payload.o["f"].b THEN "true" ELSE "false"))

\* C10: a stored record whose payload does not contain the key of a filter
\* entry is excluded from the result, whatever the filter value.
C10_AbsentKeyExcluded ==
    QueryRan =>
        \A r \in last.call.seen, key \in DOMAIN last.req.queryParams :
            ~PayloadHas(r, JoinChars(key)) => r \notin GotRows

\* C11: Query has no error outcome: for every non-empty event type and every
\* filter mapping a Query ends with status 200, never a failure response.
C11_QueryNeverFails ==
    (last.req.kind = "query" /\ last.req.eventType # "") => last.resp.status = 200

\* C12: Push has no error outcome: every Record request with a decodable body
\* leaves its record retained in the store, whatever else is in flight.
C12_PushRetained ==
    RecordDecoded =>
        \E x \in last.stored :
            /\ x \in committed
            /\ x.conn \in DOMAIN connDB
            /\ x.row \in connDB[x.conn].rows
            /\ x.row.event_type = Unmarshal(last.req.body).res.EventType
            /\ x.row.version = Unmarshal(last.req.body).res.Version

\* C13: Query is read-only: the stored records, their order and their count
\* are the same after a Query as before it. While the Query is the handler
\* that returned last, the store it read still holds exactly the rows it saw.
C13_QueryReadOnly ==
    QueryRan =>
        /\ last.call.conn \in DOMAIN connDB
        /\ connDB[last.call.conn].hasTable
        /\ connDB[last.call.conn].rows = last.call.seen

\* C14: the number of retained records n satisfies 0 <= n <= capacity in
\* every reachable state, for every capacity the buffer can be made with.
C14_CountWithinCapacity ==
    \A capacity \in 1..MaxCapacity :
        \A c \in DOMAIN connDB : Cardinality(connDB[c].rows) <= capacity

\* C15: all handlers operate on one store: a Query reads, whichever
\* connection serves it, every record pushed before the Query began.
C15_OneStore ==
    (last.req.kind = "query" /\ last.call # NoCall) =>
        \A x \in last.call.snap : x.row \in last.call.seen

\* C16: a record pushed without a data field comes back from a Query with
\* data an empty mapping (never null), and only from a Query without filters.
C16_NoDataIsEmptyMapping ==
    QueryRan =>
        /\ \A r \in SeenOfType :
              r.payload.t # "object" =>
                  (r \in GotRows <=>
                      \A key \in DOMAIN last.req.queryParams :
                          Len(last.req.queryParams[key]) = 0)
        /\ last.resp.body[1].t = "array" =>
              \A i \in DOMAIN last.resp.body[1].a :
                  last.resp.body[1].a[i].o["data"].t = "object"

\* C18: a Record request ends either in a failure response whose body is the
\* failure message alone, with no record added, or in a 200 response whose
\* body is the request body alone, with exactly one record added.
C18_OneOfTwoOutcomes ==
    last.req.kind = "record" =>
        \/ /\ last.resp.status # 200
           /\ Len(last.resp.body) = 1
           /\ last.resp.body[1] # last.req.body.raw
           /\ last.stored = {}
        \/ /\ last.resp.status = 200
           /\ last.resp.body = <<last.req.body.raw>>
           /\ Cardinality(last.stored) = 1

\* the client's json.Unmarshal of a Query response into []WebhookParams
DecodeResults(doc) ==
    IF doc.t # "array" THEN <<>>
    ELSE [i \in DOMAIN doc.a |-> Unmarshal(Body("", TRUE, doc.a[i])).res]

\* C17: round trip: the i-th record of a Query response carries exactly the
\* event type, payload and version of a Record request that pushed the i-th
\* selected row, and no selected row is skipped while the result is built.
C17_RoundTrip ==
    QueryRan =>
        LET results == DecodeResults(last.resp.body[1])
        IN  /\ Len(results) = Len(last.got)
            /\ \A i \in DOMAIN last.got :
                  \E q \in RecordRequests :
                      LET u == Unmarshal(q.body)
                      IN  /\ q.readOK /\ ~u.err
                          /\ last.got[i].event_type = u.res.EventType
                          /\ last.got[i].payload = MarshalPayload(u.res.Payload)
                          /\ last.got[i].version = u.res.Version
                          /\ results[i] = u.res

\* a Query has returned a record pushed without data next to one with data
C17_Witness ==
    /\ QueryRan
    /\ \E i, j \in DOMAIN last.got :
          /\ last.got[i].payload.t = "null"
          /\ last.got[j].payload.t = "object"
    /\ Len(DecodeResults(last.resp.body[1])) >= 2
====
